---- MODULE Spec2Model ----
(***************************************************************************)
(* A model of xyproto/sinetastic: three small Go programs that synthesize  *)
(* waveforms, mix them, write them to WAV files and play them through SDL. *)
(*                                                                         *)
(*   - the waveform program  (src/unnamed/part_000, lines 138-341):        *)
(*       SineWave, SquareWave, TriangleWave, GenerateWave, PlayWave,       *)
(*       WriteWAV, CombineWaves, main                                      *)
(*   - the SDL queue program (src/unnamed/part_000, lines 1-136):          *)
(*       GenerateSineWave, WriteWaveToFile, PlaySineWaveSDL, main          *)
(*   - the mixer program     (src/main.go):                                *)
(*       GenerateSineWave, WriteSineWaveToTempFile,                        *)
(*       PlaySineWavesSimultaneously, main                                 *)
(*                                                                         *)
(* TLC's integers are 32 bits wide, so float64 values and everything that  *)
(* can leave the int32 range are carried as naturals written in base 2^15  *)
(* (sequences of limbs, least significant first).                          *)
(***************************************************************************)
EXTENDS Integers, Sequences, FiniteSets, TLC

VARIABLES
    \* one call of GenerateWave or GenerateSineWave
    gpc,         \* "call", "loop", "done"
    gin,         \* the arguments
    build,       \* what the build does with an out-of-range float conversion
    numSamples,
    wave,        \* the slice being filled
    gi,          \* the loop index i
    sins,        \* what math.Sin returned for each sample computed so far
    vals         \* what waveFunc returned for each sample computed so far

genVars == <<gpc, gin, build, numSamples, wave, gi, sins, vals>>

VARIABLES
    \* one call of CombineWaves
    cpc,         \* "call", "outer", "inner", "done", "panic"
    waves,       \* the arguments, as runs: n equal waves w in a row
    cnum,        \* numSamples
    combined,
    ci,          \* the outer loop index i
    cr,          \* the inner loop's place in waves: the run, and
    cc,          \*   how many waves of that run have been added
    sum

cmbVars == <<cpc, waves, cnum, combined, ci, cr, cc, sum>>

VARIABLES
    \* one run of one of the three programs
    prog,        \* "sdl", "mixer" or "waveform"
    pc,          \* <<the next operation, the wave or call it is for>>
    status,      \* "running", "ok" (main returned) or "fatal" (log.Fatalf: os.Exit(1))
    log,         \* the boundary operations performed, in order, each with its outcome
    clock,       \* milliseconds since the start of the run
    tmp,         \* the temporary files that exist
    specFreq,    \* sdl: the Freq field of main's AudioSpec value
    devFreq,     \* sdl: the sample rate the open device runs at
    sigs,        \* the signals generated so far: name -> [len, rate]
    plays        \* the playbacks started: [len, rate, devRate, start, end]

mainVars == <<prog, pc, status, log, clock, tmp, specFreq, devFreq, sigs, plays>>

vars == <<genVars, cmbVars, mainVars>>

MainIdle ==
    /\ prog = "none" /\ pc = <<"idle", 0>> /\ status = "idle" /\ log = <<>>
    /\ clock = 0 /\ tmp = {} /\ specFreq = 0 /\ devFreq = 0 /\ sigs = <<>>
    /\ plays = <<>>

GenIdle ==
    /\ gpc = "idle" /\ gin = <<>> /\ build = "indefinite" /\ numSamples = 0
    /\ wave = <<>> /\ gi = 0 /\ sins = <<>> /\ vals = <<>>

CmbIdle ==
    /\ cpc = "idle" /\ waves = <<>> /\ cnum = 0 /\ combined = <<>>
    /\ ci = 0 /\ cr = 0 /\ cc = 0 /\ sum = 0

(***************************************************************************)
(* Naturals of any size: a sequence of limbs in 0..Base-1, least           *)
(* significant first, with no leading (highest) zero limb.  Zero is the    *)
(* empty sequence.  A product of two limbs stays below 2^30.               *)
(***************************************************************************)
LimbBits == 15

Base == 32768

BMax(x, y) == IF x >= y THEN x ELSE y

BMin(x, y) == IF x <= y THEN x ELSE y

RECURSIVE BNorm(_)
BNorm(b) ==
    IF b = <<>> THEN <<>>
    ELSE IF b[Len(b)] = 0 THEN BNorm(SubSeq(b, 1, Len(b) - 1))
    ELSE b

RECURSIVE BFromNat(_)
BFromNat(n) ==
    IF n = 0 THEN <<>> ELSE <<n % Base>> \o BFromNat(n \div Base)

\* The value of a natural below 2^31.
RECURSIVE BToNat(_)
BToNat(b) ==
    IF b = <<>> THEN 0 ELSE b[1] + Base * BToNat(Tail(b))

BHead(b) == IF b = <<>> THEN 0 ELSE b[1]

BTail(b) == IF b = <<>> THEN <<>> ELSE Tail(b)

\* a + b + c, c a carry of 0 or 1
RECURSIVE BAddC(_, _, _)
BAddC(a, b, c) ==
    IF a = <<>> /\ b = <<>> THEN (IF c = 1 THEN <<1>> ELSE <<>>)
    ELSE LET t == BHead(a) + BHead(b) + c
         IN  <<t % Base>> \o BAddC(BTail(a), BTail(b), t \div Base)

\* a + b
BAdd(a, b) == BAddC(a, b, 0)

\* a - b - c for a >= b + c, c a borrow of 0 or 1; the result may keep high zeros
RECURSIVE BSubC(_, _, _)
BSubC(a, b, c) ==
    IF a = <<>> THEN <<>>
    ELSE LET t == BHead(a) - BHead(b) - c
         IN  <<(t + Base) % Base>> \o BSubC(BTail(a), BTail(b), IF t < 0 THEN 1 ELSE 0)

\* a - b, for a >= b
BSub(a, b) == BNorm(BSubC(a, b, 0))

\* a < b, for normalised a and b
RECURSIVE BLess(_, _)
BLess(a, b) ==
    IF Len(a) # Len(b) THEN Len(a) < Len(b)
    ELSE IF a = <<>> THEN FALSE
    ELSE IF a[Len(a)] # b[Len(b)] THEN a[Len(a)] < b[Len(b)]
    ELSE BLess(BNorm(SubSeq(a, 1, Len(a) - 1)), BNorm(SubSeq(b, 1, Len(b) - 1)))

BLeq(a, b) == a = b \/ BLess(a, b)

\* a * d + c for a limb-sized d and c; the result may keep high zeros
RECURSIVE BMulSmallC(_, _, _)
BMulSmallC(a, d, c) ==
    IF a = <<>> THEN (IF c = 0 THEN <<>> ELSE <<c>>)
    ELSE LET t == a[1] * d + c
         IN  <<t % Base>> \o BMulSmallC(Tail(a), d, t \div Base)

BMulSmall(a, d) == BNorm(BMulSmallC(a, d, 0))

\* <<floor(a / d), a mod d>> for 0 < d <= Base, from the top limb down with
\* remainder r; the quotient may keep high zeros
RECURSIVE BDivSmallR(_, _, _)
BDivSmallR(a, d, r) ==
    IF a = <<>> THEN << <<>>, r >>
    ELSE LET t  == r * Base + a[Len(a)]
             lo == BDivSmallR(SubSeq(a, 1, Len(a) - 1), d, t % d)
         IN  << lo[1] \o <<t \div d>>, lo[2] >>

\* a * 2^k
BShl(a, k) ==
    IF a = <<>> THEN <<>>
    ELSE [j \in 1..(k \div LimbBits) |-> 0] \o BMulSmall(a, 2 ^ (k % LimbBits))

\* floor(a / 2^k)
BShr(a, k) ==
    IF k \div LimbBits >= Len(a) THEN <<>>
    ELSE BNorm(BDivSmallR(SubSeq(a, (k \div LimbBits) + 1, Len(a)), 2 ^ (k % LimbBits), 0)[1])

\* The number of bits of d, a natural below Base * 2.
RECURSIVE BitsOf(_)
BitsOf(d) == IF d = 0 THEN 0 ELSE 1 + BitsOf(d \div 2)

\* The number of bits of a: 0 for zero.
BBitLen(a) == IF a = <<>> THEN 0 ELSE LimbBits * (Len(a) - 1) + BitsOf(a[Len(a)])

\* Bit j of a, j = 1 the least significant.
BBit(a, j) ==
    LET l == ((j - 1) \div LimbBits) + 1
    IN  IF l > Len(a) THEN 0 ELSE (a[l] \div (2 ^ ((j - 1) % LimbBits))) % 2

\* Whether one of the k lowest bits of a is set.
BLowSet(a, k) ==
    \/ \E l \in 1..BMin(Len(a), k \div LimbBits) : a[l] # 0
    \/ /\ (k \div LimbBits) + 1 <= Len(a)
       /\ a[(k \div LimbBits) + 1] % (2 ^ (k % LimbBits)) # 0

\* a * b, limb by limb of b
RECURSIVE BMul(_, _)
BMul(a, b) ==
    IF b = <<>> \/ a = <<>> THEN <<>>
    ELSE BAdd(BMulSmall(a, b[1]), BShl(BMul(a, Tail(b)), LimbBits))

\* Long division, bit by bit from the top of a down: bits k..lo of a are brought
\* down onto the quotient q and remainder r of the bits above them.
RECURSIVE BDivBits(_, _, _, _, _, _)
BDivBits(a, b, k, lo, q, r) ==
    IF k < lo THEN <<q, r>>
    ELSE LET r2 == BAdd(BShl(r, 1), IF BBit(a, k) = 1 THEN <<1>> ELSE <<>>)
         IN  IF BLeq(b, r2)
             THEN BDivBits(a, b, k - 1, lo, BAdd(BShl(q, 1), <<1>>), BSub(r2, b))
             ELSE BDivBits(a, b, k - 1, lo, BShl(q, 1), r2)

\* The same, one limb of a at a time.
RECURSIVE BDivLimbs(_, _, _, _)
BDivLimbs(a, b, l, qr) ==
    IF l = 0 THEN qr
    ELSE BDivLimbs(a, b, l - 1,
                   BDivBits(a, b, l * LimbBits, (l - 1) * LimbBits + 1, qr[1], qr[2]))

\* <<floor(a / b), a mod b>> for b > 0
BDivMod(a, b) == BDivLimbs(a, b, Len(a), << <<>>, <<>> >>)

\* The number of zero bits below the lowest set bit of d > 0.
RECURSIVE TrailingZeros(_)
TrailingZeros(d) == IF d % 2 = 1 THEN 0 ELSE 1 + TrailingZeros(d \div 2)

\* The number of zero bits below the lowest set bit of a > 0.
RECURSIVE BTrailingZeros(_)
BTrailingZeros(a) ==
    IF a[1] # 0 THEN TrailingZeros(a[1]) ELSE LimbBits + BTrailingZeros(Tail(a))

(***************************************************************************)
(* float64.  A finite value is (-1)^neg * m * 2^e with m a natural of at   *)
(* most 53 bits, kept odd (or zero, with e = 0) so that equal values are   *)
(* equal records; nan marks a NaN.  Results are rounded to nearest, ties   *)
(* to even, as the hardware does.  Subnormals, infinities and the sign of  *)
(* zero are outside the values the model draws.                            *)
(***************************************************************************)
MantBits == 53

FCanon(m, e) ==
    IF m = <<>> THEN [m |-> <<>>, e |-> 0]
    ELSE LET z == BTrailingZeros(m)
         IN  [m |-> BShr(m, z), e |-> e + z]

FMake(neg, m, e) ==
    LET c == FCanon(m, e)
    IN  [nan |-> FALSE, neg |-> neg /\ c.m # <<>>, m |-> c.m, e |-> c.e]

FNaN == [nan |-> TRUE, neg |-> FALSE, m |-> <<>>, e |-> 0]

\* The float64 nearest to m * 2^e (+ a nonzero amount below one unit of m when sticky).
FRound(neg, m, e, sticky) ==
    LET d == BBitLen(m) - MantBits
    IN  IF d <= 0 THEN FMake(neg, m, e)
        ELSE LET guard == BBit(m, d)
                 rest  == sticky \/ BLowSet(m, d - 1)
                 q     == BShr(m, d)
                 up    == guard = 1 /\ (rest \/ BBit(q, 1) = 1)
             IN  FMake(neg, IF up THEN BAdd(q, <<1>>) ELSE q, e + d)

\* float64(n) for an int n within the int32 range: exact.
FFromInt(n) == IF n < 0 THEN FMake(TRUE, BFromNat(-n), 0) ELSE FMake(FALSE, BFromNat(n), 0)

FNeg(a) == IF a.nan \/ a.m = <<>> THEN a ELSE [a EXCEPT !.neg = ~a.neg]

FIsZero(a) == ~a.nan /\ a.m = <<>>

\* a >= 0 (false for a NaN, as every comparison with a NaN is)
FGeqZero(a) == ~a.nan /\ ~a.neg

\* a * b
FMul(a, b) ==
    IF a.nan \/ b.nan THEN FNaN
    ELSE FRound(a.neg # b.neg, BMul(a.m, b.m), a.e + b.e, FALSE)

\* a / b, b # 0
FDiv(a, b) ==
    IF a.nan \/ b.nan THEN FNaN
    ELSE IF a.m = <<>> THEN FMake(FALSE, <<>>, 0)
    ELSE LET s  == BMax(0, MantBits + 3 + BBitLen(b.m) - BBitLen(a.m))
             qr == BDivMod(BShl(a.m, s), b.m)
         IN  FRound(a.neg # b.neg, qr[1], a.e - s - b.e, qr[2] # <<>>)

\* a + b for a, b >= 0
FAdd(a, b) ==
    IF a.nan \/ b.nan THEN FNaN
    ELSE LET e == IF a.e <= b.e THEN a.e ELSE b.e
         IN  FRound(FALSE, BAdd(BShl(a.m, a.e - e), BShl(b.m, b.e - e)), e, FALSE)

\* The magnitude of a finite value with its fraction dropped: floor(|a|).
FTruncMag(a) == IF a.e >= 0 THEN BShl(a.m, a.e) ELSE BShr(a.m, 0 - a.e)

\* A decimal constant n / 10^k as Go's compiler rounds it to float64.
FDecimal(n, tenPow) == FDiv(FFromInt(n), FFromInt(tenPow))

\* a < b for finite a, b >= 0
FLessMag(a, b) ==
    LET e == BMin(a.e, b.e)
    IN  BLess(BShl(a.m, a.e - e), BShl(b.m, b.e - e))

(***************************************************************************)
(* The constants of the three programs.                                    *)
(***************************************************************************)
MaxInt16 == 32767

MinInt16 == -32768

MaxInt32 == 2147483647

MinInt32 == -2147483647 - 1

sampleRate == 44100

sampleRate44 == 44100

sampleRate48 == 48000

\* duration = 2 * time.Second, in milliseconds
duration == 2000

frequency1 == 220

frequency2 == 110

\* math.Pi as a float64: 0x1921FB54442D18 * 2^-51
Pi == FMake(FALSE, BAdd(BShl(BFromNat(26353589), 28), BFromNat(71576856)), -51)

\* amplitude = math.MaxInt16, and main's 0.8 * amplitude: a constant expression,
\* evaluated exactly and then rounded to float64.
amplitude == FFromInt(MaxInt16)

amplitude80 == FDecimal(8 * MaxInt16, 10)

(***************************************************************************)
(* time.Duration.Seconds() of a duration of ms milliseconds:               *)
(*   float64(d / Second) + float64(d % Second) / 1e9                       *)
(***************************************************************************)
Seconds(ms) ==
    FAdd(FFromInt(ms \div 1000),
         FDiv(FFromInt((ms % 1000) * 1000000), FFromInt(1000000000)))

\* int(f) for a finite f >= 0 below 2^31: the fraction is dropped.
IntOfFloat(f) == BToNat(FTruncMag(f))

\* numSamples := int(duration.Seconds() * float64(sampleRate))
NumSamples(rate, ms) == IntOfFloat(FMul(Seconds(ms), FFromInt(rate)))

(***************************************************************************)
(* int16(f) as the Go compiler emits it: float64 to int32 with the         *)
(* fraction dropped, then the low 16 bits of the int32.  When the value is *)
(* outside the int32 range the language leaves the result to the           *)
(* implementation: an x86 build yields the "integer indefinite" value      *)
(* 0x80000000, a saturating build (ARM and others) the nearest int32.      *)
(***************************************************************************)
Builds == {"indefinite", "saturating"}

\* Whether the truncation of f fits an int32.
FitsInt32(f) ==
    LET mag == FTruncMag(f)
        p31 == BShl(<<1>>, 31)
    IN  IF f.neg THEN BLeq(mag, p31) ELSE BLess(mag, p31)

\* The low 16 bits of a natural, as a number in 0..65535.
Low16(mag) == BHead(mag) + Base * (BHead(BTail(mag)) % 2)

\* A 16-bit pattern u in 0..65535 read as an int16.
Signed16(u) == IF u >= 32768 THEN u - 65536 ELSE u

\* The low 16 bits of the two's complement int32 (or wider) of value (-1)^neg * mag.
Trunc16(neg, mag) ==
    Signed16(IF neg THEN (65536 - Low16(mag)) % 65536 ELSE Low16(mag))

\* A conversion that clamps to the int16 range instead.
ConvInt16Clamp(f, b) ==
    IF ~FitsInt32(f) THEN (IF f.neg THEN MinInt16 ELSE MaxInt16)
    ELSE LET n == (IF f.neg THEN -1 ELSE 1) * BToNat(FTruncMag(f))
         IN  IF n > MaxInt16 THEN MaxInt16 ELSE IF n < MinInt16 THEN MinInt16 ELSE n

ConvInt16(f, b) ==
    IF FitsInt32(f) THEN Trunc16(f.neg, FTruncMag(f))
    ELSE IF b = "saturating" /\ ~f.neg THEN Signed16(65535)   \* 0x7FFFFFFF
    ELSE 0                                                    \* 0x80000000

(***************************************************************************)
(* The waveforms.  math.Sin and math.Asin are library functions whose      *)
(* results the model does not compute: the value s of                      *)
(* math.Sin(2.0*math.Pi*frequency*t+phase) is drawn from SinVals, except   *)
(* where the argument is exactly zero (t = 0 or frequency = 0, and         *)
(* phase = 0), where math.Sin returns 0; math.Asin(s) is 0 at 0 and        *)
(* otherwise drawn from the values of AsinVals with the sign of s.         *)
(***************************************************************************)
FZero == FFromInt(0)

FHalf == FMake(FALSE, <<1>>, -1)

SinVals == {FNeg(FFromInt(1)), FNeg(FHalf), FZero, FHalf, FFromInt(1)}

\* math.Pi / 6 (0x10C152382D7365 * 2^-53) and math.Pi / 2
AsinVals ==
    {FMake(FALSE, BAdd(BShl(BFromNat(17569059), 28), BFromNat(137196389)), -53),
     FMake(FALSE, Pi.m, Pi.e - 1)}

\* The values math.Sin may return for sample i.
MathSin(i, frequency, phase) ==
    IF (i = 0 \/ frequency = 0) /\ phase = 0 THEN {FZero} ELSE SinVals

\* The values math.Asin(s) may return.
MathAsin(s) ==
    IF FIsZero(s) THEN {FZero}
    ELSE IF s.neg THEN {FNeg(r) : r \in AsinVals}
    ELSE AsinVals

\* amplitude * math.Sin(...)
SineWave(s, amp) == FMul(amp, s)

SquareWaveStrict(s, amp) == IF FGeqZero(s) /\ ~FIsZero(s) THEN amp ELSE FNeg(amp)

\* amplitude if math.Sin(...) >= 0, else -amplitude
SquareWave(s, amp) == IF FGeqZero(s) THEN amp ELSE FNeg(amp)

\* 2 * amplitude / math.Pi, the factor of TriangleWave that is the same for every sample
TriangleScale(amp) == FDiv(FMul(FFromInt(2), amp), Pi)

\* (2 * amplitude / math.Pi) * math.Asin(math.Sin(...)), given the factor and
\* the value asn of math.Asin
TriangleWave(asn, scale) == FMul(scale, asn)

(***************************************************************************)
(* GenerateWave(waveFunc, frequency, amplitude, phase, sampleRate,         *)
(* duration) and GenerateSineWave(freq, sampleRate, duration), one loop    *)
(* iteration per step.  GenerateSineWave is the sine at amplitude          *)
(* math.MaxInt16 and phase 0.                                              *)
(***************************************************************************)
\* How many loop iterations of one call the model follows.
MaxLoop == 2

Kinds == {"SineWave", "SquareWave", "TriangleWave"}

\* 0.8 * 32767, 32767, 40000.5 (outside int16), 2^31 + 5 (outside int32)
Amplitudes ==
    {amplitude80, amplitude, FDecimal(400005, 10), FAdd(FFromInt(MaxInt32), FFromInt(6))}

\* <<sampleRate, duration in ms>>: 0, 1, 2 and 28 samples
GenTimes == {<<1, 0>>, <<1, 1000>>, <<3, 700>>, <<100, 290>>}

GenInputs ==
    \* calls on a small grid of arguments
    {[fn |-> "GenerateWave", kind |-> k, frequency |-> frequency1,
      amplitude |-> a, phase |-> p, sampleRate |-> t[1], durationMs |-> t[2]] :
        k \in Kinds, a \in Amplitudes, p \in {0, 1}, t \in GenTimes}
    \cup
    {[fn |-> "GenerateSineWave", kind |-> "SineWave", frequency |-> frequency1,
      amplitude |-> amplitude, phase |-> 0, sampleRate |-> t[1], durationMs |-> t[2]] :
        t \in GenTimes}
    \cup
    \* the calls the three mains make
    [fn : {"GenerateWave"}, kind : Kinds, frequency : {frequency1},
     amplitude : {amplitude80}, phase : {0},
     sampleRate : {sampleRate}, durationMs : {duration}]
    \cup
    [fn : {"GenerateSineWave"}, kind : {"SineWave"}, frequency : {frequency1, frequency2},
     amplitude : {amplitude}, phase : {0},
     sampleRate : {sampleRate44, sampleRate48}, durationMs : {duration}]

GenInit ==
    /\ CmbIdle
    /\ MainIdle
    /\ gpc = "call"
    /\ gin \in GenInputs
    /\ build \in Builds
    /\ numSamples = 0
    /\ wave = <<>>
    /\ gi = 0
    /\ sins = <<>>
    /\ vals = <<>>

\* numSamples := int(duration.Seconds() * float64(sampleRate))
\* wave := make([]int16, numSamples)
GenAlloc ==
    /\ gpc = "call"
    /\ numSamples' = NumSamples(gin.sampleRate, gin.durationMs)
    /\ wave' = [j \in 1..numSamples' |-> 0]
    /\ gi' = 0
    /\ gpc' = "loop"
    /\ UNCHANGED <<gin, build, sins, vals>>
    /\ UNCHANGED <<cmbVars, mainVars>>

\* The value waveFunc returns once math.Sin has returned s (and math.Asin asn).
WaveValue(kind, s, asn, amp, scale) ==
    CASE kind = "SineWave"     -> SineWave(s, amp)
      [] kind = "SquareWave"   -> SquareWave(s, amp)
      [] kind = "TriangleWave" -> TriangleWave(asn, scale)

\* One iteration: t := float64(i) / float64(sampleRate);
\* sample := waveFunc(t, frequency, amplitude, phase); wave[i] = int16(sample)
GenLoop ==
    /\ gpc = "loop"
    /\ gi < numSamples
    /\ gi < MaxLoop
    /\ \E scale \in {IF gin.kind = "TriangleWave" THEN TriangleScale(gin.amplitude) ELSE FZero} :
         \E s \in MathSin(gi, gin.frequency, gin.phase) :
           \E asn \in (IF gin.kind = "TriangleWave" THEN MathAsin(s) ELSE {FZero}) :
             \E sample \in {WaveValue(gin.kind, s, asn, gin.amplitude, scale)} :
               /\ wave' = [wave EXCEPT ![gi + 1] = ConvInt16(sample, build)]
               /\ sins' = Append(sins, s)
               /\ vals' = Append(vals, sample)
    /\ gi' = gi + 1
    /\ UNCHANGED <<gpc, gin, build, numSamples>>
    /\ UNCHANGED <<cmbVars, mainVars>>

\* return wave
GenReturn ==
    /\ gpc = "loop"
    /\ gi >= numSamples
    /\ gpc' = "done"
    /\ UNCHANGED <<gin, build, numSamples, wave, gi, sins, vals>>
    /\ UNCHANGED <<cmbVars, mainVars>>

GenNext == GenAlloc \/ GenLoop \/ GenReturn

SpecGenerate == GenInit /\ [][GenNext]_vars

(***************************************************************************)
(* CombineWaves(waves ...[]int16), one inner-loop iteration per step.      *)
(* The argument list is written as runs: the run [w |-> w, n |-> n] stands *)
(* for n arguments equal to w in a row, so that a call with tens of        *)
(* thousands of arguments is a value of constant size.                     *)
(***************************************************************************)
\* The longest argument list of distinct waves, and the longest wave, drawn.
MaxWaves == 3

MaxSamples == 1

\* The most equal arguments in a row.
MaxCopies == 65537

SampleVals == {MinInt16, 1, MaxInt16}

WaveSet == UNION {[1..n -> SampleVals] : n \in 0..MaxSamples}

CombineInputs ==
    UNION {[1..k -> [w : WaveSet, n : {1}]] : k \in 0..MaxWaves}
    \cup {<<[w |-> <<MinInt16>>, n |-> MaxCopies]>>,
          <<[w |-> <<MaxInt16>>, n |-> 3], [w |-> <<MinInt16>>, n |-> 2]>>,
          <<[w |-> <<1>>, n |-> 1], [w |-> <<1, 1>>, n |-> 1]>>,
          <<[w |-> <<1, 1>>, n |-> 1], [w |-> <<1>>, n |-> 1]>>}

\* len(waves)
RECURSIVE LenWaves(_)
LenWaves(ws) == IF ws = <<>> THEN 0 ELSE ws[1].n + LenWaves(Tail(ws))

\* a + b in int32 arithmetic, which wraps around
Int32Add(a, b) ==
    IF a > 0 /\ b > MaxInt32 - a THEN (a + MinInt32) + (b + MinInt32)
    ELSE IF a < 0 /\ b < MinInt32 - a THEN (a - MinInt32) + (b - MinInt32)
    ELSE a + b

CmbInit ==
    /\ GenIdle
    /\ MainIdle
    /\ cpc = "call"
    /\ waves \in CombineInputs
    /\ cnum = 0
    /\ combined = <<>>
    /\ ci = 0 /\ cr = 0 /\ cc = 0
    /\ sum = 0

\* The entry without the test for an empty argument list: waves[0] is read at once.
CombineEnterUnguarded ==
    /\ cpc = "call"
    /\ IF LenWaves(waves) = 0
       THEN cpc' = "panic" /\ UNCHANGED <<cnum, combined>>
       ELSE /\ cnum' = Len(waves[1].w)
            /\ combined' = [j \in 1..cnum' |-> 0]
            /\ cpc' = "outer"
    /\ ci' = 0
    /\ UNCHANGED <<waves, cr, cc, sum>>
    /\ UNCHANGED <<genVars, mainVars>>

\* if len(waves) == 0 { return nil }
\* numSamples := len(waves[0]); combined := make([]int16, numSamples)
CombineEnter ==
    /\ cpc = "call"
    /\ IF LenWaves(waves) = 0
       THEN cpc' = "done" /\ combined' = <<>> /\ UNCHANGED cnum
       ELSE /\ cnum' = Len(waves[1].w)
            /\ combined' = [j \in 1..cnum' |-> 0]
            /\ cpc' = "outer"
    /\ ci' = 0
    /\ UNCHANGED <<waves, cr, cc, sum>>
    /\ UNCHANGED <<genVars, mainVars>>

\* for i := 0; i < numSamples; i++ { sum := int32(0) ... }; return combined
CombineOuter ==
    /\ cpc = "outer"
    /\ IF ci < cnum
       THEN cpc' = "inner" /\ sum' = 0 /\ cr' = 1 /\ cc' = 0
       ELSE cpc' = "done" /\ UNCHANGED <<sum, cr, cc>>
    /\ UNCHANGED <<waves, cnum, combined, ci>>
    /\ UNCHANGED <<genVars, mainVars>>

\* for _, wave := range waves { sum += int32(wave[i]) }: one wave.
\* wave[i] panics when i is not below len(wave).
CombineInner ==
    /\ cpc = "inner"
    /\ cr <= Len(waves)
    /\ IF ci + 1 > Len(waves[cr].w)
       THEN cpc' = "panic" /\ UNCHANGED <<sum, cr, cc>>
       ELSE /\ sum' = Int32Add(sum, waves[cr].w[ci + 1])
            /\ IF cc + 1 < waves[cr].n
               THEN cc' = cc + 1 /\ cr' = cr
               ELSE cc' = 0 /\ cr' = cr + 1
            /\ cpc' = "inner"
    /\ UNCHANGED <<waves, cnum, combined, ci>>
    /\ UNCHANGED <<genVars, mainVars>>

\* if sum > math.MaxInt16 { sum = math.MaxInt16 } else if sum < math.MinInt16 { sum = math.MinInt16 }
Clamp(x) == IF x > MaxInt16 THEN MaxInt16 ELSE IF x < MinInt16 THEN MinInt16 ELSE x

\* the clamp, and combined[i] = int16(sum)
CombineStore ==
    /\ cpc = "inner"
    /\ cr > Len(waves)
    /\ combined' = [combined EXCEPT ![ci + 1] = Clamp(sum)]
    /\ ci' = ci + 1
    /\ cpc' = "outer"
    /\ UNCHANGED <<waves, cnum, cr, cc, sum>>
    /\ UNCHANGED <<genVars, mainVars>>

CmbNext == CombineEnter \/ CombineOuter \/ CombineInner \/ CombineStore

SpecCombine == CmbInit /\ [][CmbNext]_vars

(***************************************************************************)
(* Properties of GenerateWave, GenerateSineWave and SquareWave.            *)
(***************************************************************************)
\* The integer a finite float of magnitude below 2^31 truncates to.
TruncInt(f) == (IF f.neg THEN -1 ELSE 1) * BToNat(FTruncMag(f))

\* n reduced modulo 2^16 into [-32768, 32767]
Wrap16(n) == ((n + 32768) % 65536) - 32768

\* |f| < 2^31
BelowTwo31(f) == FLessMag(f, FMake(FALSE, <<1>>, 31))

\* n is f with its fraction dropped: the same sign, and |n| <= |f| < |n| + 1
IsTruncationOf(n, f) ==
    /\ (n < 0 => f.neg) /\ (n > 0 => ~f.neg)
    /\ ~FLessMag(f, FFromInt(IF n < 0 THEN -n ELSE n))
    /\ FLessMag(f, FFromInt((IF n < 0 THEN -n ELSE n) + 1))

\* C3: GenerateWave and GenerateSineWave return exactly
\* floor(sampleRate * duration_seconds) samples; zero duration gives an empty
\* signal; 44100 Hz for 2 s gives 88200 samples, and sample 0 of a sine at phase 0
\* is 0.
C3_LengthIsFloor ==
    gpc # "call" =>
        /\ Len(wave) = (gin.sampleRate * gin.durationMs) \div 1000
        /\ (gin.durationMs = 0 => wave = <<>>)
        /\ (gin.sampleRate = 44100 /\ gin.durationMs = 2000 => Len(wave) = 88200)
        /\ (gin.kind = "SineWave" /\ gin.phase = 0 /\ gi >= 1 => wave[1] = 0)

\* C4, as amended: every sample is the waveform value with its fraction dropped
\* (toward zero), not clamped: when that integer is outside the int16 range but
\* within the int32 range, the sample is the integer reduced modulo 2^16.
C4_TruncatesAndWrapsWithinInt32 ==
    \A j \in 1..Len(vals) :
        BelowTwo31(vals[j]) =>
            /\ IsTruncationOf(TruncInt(vals[j]), vals[j])
            /\ wave[j] = Wrap16(TruncInt(vals[j]))
            /\ (TruncInt(vals[j]) \in MinInt16..MaxInt16 => wave[j] = TruncInt(vals[j]))
            /\ (vals[j] = amplitude80 => wave[j] = 26213)
            /\ (vals[j] = FNeg(amplitude80) => wave[j] = -26213)

\* C4, as stated: every value outside the int16 range is stored reduced modulo 2^16.
C4_WrapsEveryValue ==
    \A j \in 1..Len(vals) : wave[j] = Trunc16(vals[j].neg, FTruncMag(vals[j]))

\* A square wave of amplitude 40000.5: +40000.5 has been stored as 40000 - 65536
\* and -40000.5 as -40000 + 65536.
C4_Witness ==
    /\ gin.kind = "SquareWave"
    /\ Len(vals) = 2
    /\ vals[1] = FDecimal(400005, 10) /\ wave[1] = -25536
    /\ vals[2] = FNeg(FDecimal(400005, 10)) /\ wave[2] = 25536

\* C6: SquareWave returns exactly +amplitude when math.Sin(...) >= 0, the tie at 0
\* included, and exactly -amplitude otherwise.
C6_SquareIsPlusOrMinusAmplitude ==
    gin.kind = "SquareWave" =>
        \A j \in 1..Len(vals) :
            /\ vals[j] \in {gin.amplitude, FNeg(gin.amplitude)}
            /\ (~sins[j].neg => vals[j] = gin.amplitude)
            /\ (sins[j].neg => vals[j] = FNeg(gin.amplitude))

\* A square wave sample computed where math.Sin returned exactly 0, and one where
\* it returned a negative value.
C6_Witness ==
    /\ gin.kind = "SquareWave"
    /\ Len(vals) = 2
    /\ FIsZero(sins[1]) /\ vals[1] = gin.amplitude
    /\ sins[2].neg /\ vals[2] = FNeg(gin.amplitude)

(***************************************************************************)
(* Properties of CombineWaves.                                             *)
(***************************************************************************)
\* The sum of n * w[i] over the runs whose sample i has the sign sgn, as a natural
\* of any size.
RECURSIVE SignedPart(_, _, _)
SignedPart(ws, i, sgn) ==
    IF ws = <<>> THEN <<>>
    ELSE LET x == ws[1].w[i]
         IN  BAdd(IF x * sgn > 0 THEN BMul(BFromNat(ws[1].n), BFromNat(x * sgn)) ELSE <<>>,
                  SignedPart(Tail(ws), i, sgn))

\* The exact sum of the arguments' samples at i, clamped to [-32768, 32767].
ExactSumClamped(ws, i) ==
    LET pos == SignedPart(ws, i, 1)
        neg == SignedPart(ws, i, -1)
    IN  IF BLess(BAdd(neg, BFromNat(MaxInt16)), pos) THEN MaxInt16
        ELSE IF BLess(BAdd(pos, BFromNat(-MinInt16)), neg) THEN MinInt16
        ELSE IF BLeq(neg, pos) THEN BToNat(BSub(pos, neg))
        ELSE 0 - BToNat(BSub(neg, pos))

EqualLengths(ws) == \A a, b \in 1..Len(ws) : Len(ws[a].w) = Len(ws[b].w)

\* C1: for any non-empty list of equal-length signals, every output sample is the
\* exact sum of the inputs' samples at that index clamped to [-32768, 32767].
C1_Saturates ==
    (cpc = "done" /\ waves # <<>> /\ EqualLengths(waves)) =>
        /\ Len(combined) = Len(waves[1].w)
        /\ \A i \in 1..Len(combined) : combined[i] = ExactSumClamped(waves, i)

\* C1 holds of CombineWaves for lists of at most 65536 signals: no partial sum
\* then leaves the int32 range.
C1_SaturatesUpTo65536 ==
    LenWaves(waves) <= 65536 => C1_Saturates

\* C2: a call with signals of differing lengths never returns a result.
C2_MismatchFailsFast ==
    ~EqualLengths(waves) => cpc # "done"

\* A call whose later argument is the shorter one panics.
C2_PanicsWhenLaterIsShorter ==
    (cpc = "done" /\ waves # <<>>) => \A a \in 1..Len(waves) : Len(waves[a].w) >= Len(waves[1].w)

\* C5: a call with no signals returns an empty signal and does not panic.
C5_EmptyReturnsEmpty ==
    waves = <<>> =>
        /\ cpc \in {"call", "done"}
        /\ (cpc = "done" => combined = <<>>)

\* CombineWaves() has returned, and its result is empty.
C5_Witness == waves = <<>> /\ cpc = "done" /\ Len(combined) = 0

(***************************************************************************)
(* The three programs' main sequences.  Every call that can fail (file     *)
(* creation, encoding, device open, loading, playback) is one step whose   *)
(* outcome the environment chooses; log records the steps in the order     *)
(* they run.  Clean-up calls (Close, Free, CloseAudio, Quit, Remove) are    *)
(* part of the step that makes them run.  Only time.Sleep takes time: it   *)
(* returns after duration or a little later.                               *)
(***************************************************************************)
Progs == {"sdl", "mixer", "waveform"}

Overshoot == {0, 1}

Exit == <<"exit", 0>>

\* A step that can fail, in a position where an error reaches log.Fatalf:
\* on success the run goes on at next, on failure the process exits.
Outcome(op, ok, next) ==
    /\ log' = Append(log, [op |-> op, ok |-> ok])
    /\ IF ok THEN pc' = next /\ status' = status
             ELSE pc' = Exit /\ status' = "fatal"

\* A step that cannot fail.
Did(op, next) ==
    /\ log' = Append(log, [op |-> op, ok |-> TRUE])
    /\ pc' = next
    /\ status' = status

Signal(rate) == [len |-> NumSamples(rate, duration), rate |-> rate]

Playback(sig, rate) ==
    [len |-> sig.len, rate |-> sig.rate, devRate |-> rate,
     start |-> clock, end |-> -1]

\* time.Sleep(duration) returns at time now: what was playing has had until
\* then.
Slept(now) ==
    [i \in 1..Len(plays) |->
        IF plays[i].end = -1 THEN [plays[i] EXCEPT !.end = now] ELSE plays[i]]

MainInit ==
    /\ GenIdle
    /\ CmbIdle
    /\ prog \in Progs
    /\ pc = CASE prog = "sdl" -> <<"sdl.Init", 0>>
              [] prog = "mixer" -> <<"GenerateSineWave", 0>>
              [] prog = "waveform" -> <<"GenerateWave", 1>>
    /\ status = "running"
    /\ log = <<>>
    /\ clock = 0
    /\ tmp = {}
    /\ specFreq = 0
    /\ devFreq = 0
    /\ sigs = <<>>
    /\ plays = <<>>

(***************************************************************************)
(* The SDL queue program.  Wave 1 is sineWave44, wave 2 is sineWave48.     *)
(***************************************************************************)
SdlRate(k) == IF k = 1 THEN sampleRate44 ELSE sampleRate48

SdlInit ==
    /\ prog = "sdl" /\ pc = <<"sdl.Init", 0>>
    /\ \E ok \in BOOLEAN : Outcome("sdl.Init", ok, <<"sdl.OpenAudioDevice", 0>>)
    /\ UNCHANGED <<prog, clock, tmp, specFreq, devFreq, sigs, plays>>
    /\ UNCHANGED <<genVars, cmbVars>>

\* The device is opened once, at the Freq the AudioSpec holds at that time.
SdlOpenAudioDevice ==
    /\ prog = "sdl" /\ pc = <<"sdl.OpenAudioDevice", 0>>
    /\ specFreq' = sampleRate44
    /\ \E ok \in BOOLEAN :
         /\ Outcome("sdl.OpenAudioDevice", ok, <<"GenerateSineWave", 1>>)
         /\ devFreq' = IF ok THEN specFreq' ELSE devFreq
    /\ UNCHANGED <<prog, clock, tmp, sigs, plays>>
    /\ UNCHANGED <<genVars, cmbVars>>

SdlGenerateSineWave(k) ==
    /\ prog = "sdl" /\ pc = <<"GenerateSineWave", k>>
    /\ sigs' = Append(sigs, Signal(SdlRate(k)))
    /\ Did("GenerateSineWave", <<"sdl.QueueAudio", k>>)
    /\ UNCHANGED <<prog, clock, tmp, specFreq, devFreq, plays>>
    /\ UNCHANGED <<genVars, cmbVars>>

\* PlaySineWaveSDL up to PauseAudioDevice: the bytes of the wave are queued
\* on the device as it is.
PlaySineWaveSDL_QueueAudio(k) ==
    /\ prog = "sdl" /\ pc = <<"sdl.QueueAudio", k>>
    /\ \E ok \in BOOLEAN :
         /\ Outcome("sdl.QueueAudio", ok, <<"time.Sleep", k>>)
         /\ plays' = IF ok THEN Append(plays, Playback(sigs[k], devFreq))
                          ELSE plays
    /\ UNCHANGED <<prog, clock, tmp, specFreq, devFreq, sigs>>
    /\ UNCHANGED <<genVars, cmbVars>>

PlaySineWaveSDL_Sleep(k) ==
    /\ prog = "sdl" /\ pc = <<"time.Sleep", k>>
    /\ \E late \in Overshoot :
         /\ clock' = clock + duration + late
         /\ plays' = Slept(clock')
    /\ pc' = IF k = 1 THEN <<"spec.Freq", 0>> ELSE <<"os.Create", 1>>
    /\ UNCHANGED <<prog, status, log, tmp, specFreq, devFreq, sigs>>
    /\ UNCHANGED <<genVars, cmbVars>>

\* spec.Freq = int32(sampleRate48); sdl.ClearQueuedAudio(deviceID): the
\* assignment changes main's AudioSpec value, the open device is not touched.
SdlSetFreq ==
    /\ prog = "sdl" /\ pc = <<"spec.Freq", 0>>
    /\ specFreq' = sampleRate48
    /\ pc' = <<"GenerateSineWave", 2>>
    /\ UNCHANGED <<prog, status, log, clock, tmp, devFreq, sigs, plays>>
    /\ UNCHANGED <<genVars, cmbVars>>

WriteWaveToFile_Create(k) ==
    /\ prog = "sdl" /\ pc = <<"os.Create", k>>
    /\ \E ok \in BOOLEAN : Outcome("os.Create", ok, <<"encoder.Write", k>>)
    /\ UNCHANGED <<prog, clock, tmp, specFreq, devFreq, sigs, plays>>
    /\ UNCHANGED <<genVars, cmbVars>>

WriteWaveToFile_Write(k) ==
    /\ prog = "sdl" /\ pc = <<"encoder.Write", k>>
    /\ \E ok \in BOOLEAN : Outcome("encoder.Write", ok, <<"encoder.Close", k>>)
    /\ UNCHANGED <<prog, clock, tmp, specFreq, devFreq, sigs, plays>>
    /\ UNCHANGED <<genVars, cmbVars>>

\* defer encoder.Close(): the deferred call's result is dropped, and
\* WriteWaveToFile returns nil whatever it was.
WriteWaveToFile_Close(k) ==
    /\ prog = "sdl" /\ pc = <<"encoder.Close", k>>
    /\ \E ok \in BOOLEAN : log' = Append(log, [op |-> "encoder.Close", ok |-> ok])
    /\ pc' = IF k = 1 THEN <<"os.Create", 2>> ELSE <<"return", 0>>
    /\ UNCHANGED <<prog, status, clock, tmp, specFreq, devFreq, sigs, plays>>
    /\ UNCHANGED <<genVars, cmbVars>>

SdlReturn ==
    /\ prog = "sdl" /\ pc = <<"return", 0>>
    /\ pc' = Exit
    /\ status' = "ok"
    /\ UNCHANGED <<prog, log, clock, tmp, specFreq, devFreq, sigs, plays>>
    /\ UNCHANGED <<genVars, cmbVars>>

SdlNext ==
    \/ SdlInit
    \/ SdlOpenAudioDevice
    \/ \E k \in 1..2 : SdlGenerateSineWave(k)
    \/ \E k \in 1..2 : PlaySineWaveSDL_QueueAudio(k)
    \/ \E k \in 1..2 : PlaySineWaveSDL_Sleep(k)
    \/ SdlSetFreq
    \/ \E k \in 1..2 : WriteWaveToFile_Create(k)
    \/ \E k \in 1..2 : WriteWaveToFile_Write(k)
    \/ \E k \in 1..2 : WriteWaveToFile_Close(k)
    \/ SdlReturn

(***************************************************************************)
(* The mixer program.  Temporary file k holds sineWave k; call c of        *)
(* PlaySineWavesSimultaneously plays file1 = File1(c) and, in call 3,      *)
(* file2 = 2 as well.                                                      *)
(***************************************************************************)
File1(c) == IF c = 2 THEN 2 ELSE 1

Both(c) == c = 3

MixGenerateSineWave ==
    /\ prog = "mixer" /\ pc = <<"GenerateSineWave", 0>>
    /\ sigs' = <<Signal(sampleRate), Signal(sampleRate)>>
    /\ Did("GenerateSineWave", <<"ioutil.TempFile", 1>>)
    /\ UNCHANGED <<prog, clock, tmp, specFreq, devFreq, plays>>
    /\ UNCHANGED <<genVars, cmbVars>>

WriteSineWaveToTempFile_TempFile(k) ==
    /\ prog = "mixer" /\ pc = <<"ioutil.TempFile", k>>
    /\ \E ok \in BOOLEAN :
         /\ Outcome("ioutil.TempFile", ok, <<"encoder.Write", k>>)
         /\ tmp' = IF ok THEN tmp \cup {k} ELSE tmp
    /\ UNCHANGED <<prog, clock, specFreq, devFreq, sigs, plays>>
    /\ UNCHANGED <<genVars, cmbVars>>

\* On an error the function returns "" and the error: the file stays, and
\* main has no name to remove.
WriteSineWaveToTempFile_Write(k) ==
    /\ prog = "mixer" /\ pc = <<"encoder.Write", k>>
    /\ \E ok \in BOOLEAN : Outcome("encoder.Write", ok, <<"encoder.Close", k>>)
    /\ UNCHANGED <<prog, clock, tmp, specFreq, devFreq, sigs, plays>>
    /\ UNCHANGED <<genVars, cmbVars>>

WriteSineWaveToTempFile_Close(k) ==
    /\ prog = "mixer" /\ pc = <<"encoder.Close", k>>
    /\ \E ok \in BOOLEAN :
         Outcome("encoder.Close", ok,
                 IF k = 1 THEN <<"ioutil.TempFile", 2>> ELSE <<"mix.OpenAudio", 1>>)
    /\ UNCHANGED <<prog, clock, tmp, specFreq, devFreq, sigs, plays>>
    /\ UNCHANGED <<genVars, cmbVars>>

PlaySineWavesSimultaneously_OpenAudio(c) ==
    /\ prog = "mixer" /\ pc = <<"mix.OpenAudio", c>>
    /\ \E ok \in BOOLEAN : Outcome("mix.OpenAudio", ok, <<"mix.LoadWAV(file1)", c>>)
    /\ UNCHANGED <<prog, clock, tmp, specFreq, devFreq, sigs, plays>>
    /\ UNCHANGED <<genVars, cmbVars>>

PlaySineWavesSimultaneously_LoadWAV1(c) ==
    /\ prog = "mixer" /\ pc = <<"mix.LoadWAV(file1)", c>>
    /\ \E ok \in BOOLEAN :
         Outcome("mix.LoadWAV", ok,
                 IF Both(c) THEN <<"mix.LoadWAV(file2)", c>> ELSE <<"chunk1.Play", c>>)
    /\ UNCHANGED <<prog, clock, tmp, specFreq, devFreq, sigs, plays>>
    /\ UNCHANGED <<genVars, cmbVars>>

PlaySineWavesSimultaneously_LoadWAV2(c) ==
    /\ prog = "mixer" /\ pc = <<"mix.LoadWAV(file2)", c>>
    /\ \E ok \in BOOLEAN : Outcome("mix.LoadWAV", ok, <<"chunk1.Play", c>>)
    /\ UNCHANGED <<prog, clock, tmp, specFreq, devFreq, sigs, plays>>
    /\ UNCHANGED <<genVars, cmbVars>>

PlaySineWavesSimultaneously_Play1(c) ==
    /\ prog = "mixer" /\ pc = <<"chunk1.Play", c>>
    /\ \E ok \in BOOLEAN :
         /\ Outcome("chunk.Play", ok,
                    IF Both(c) THEN <<"chunk2.Play", c>> ELSE <<"time.Sleep", c>>)
         /\ plays' = IF ok THEN Append(plays, Playback(sigs[File1(c)], sampleRate))
                          ELSE plays
    /\ UNCHANGED <<prog, clock, tmp, specFreq, devFreq, sigs>>
    /\ UNCHANGED <<genVars, cmbVars>>

PlaySineWavesSimultaneously_Play2(c) ==
    /\ prog = "mixer" /\ pc = <<"chunk2.Play", c>>
    /\ \E ok \in BOOLEAN :
         /\ Outcome("chunk.Play", ok, <<"time.Sleep", c>>)
         /\ plays' = IF ok THEN Append(plays, Playback(sigs[2], sampleRate))
                          ELSE plays
    /\ UNCHANGED <<prog, clock, tmp, specFreq, devFreq, sigs>>
    /\ UNCHANGED <<genVars, cmbVars>>

PlaySineWavesSimultaneously_Sleep(c) ==
    /\ prog = "mixer" /\ pc = <<"time.Sleep", c>>
    /\ \E late \in Overshoot :
         /\ clock' = clock + duration + late
         /\ plays' = Slept(clock')
    /\ pc' = IF c < 3 THEN <<"mix.OpenAudio", c + 1>> ELSE <<"return", 0>>
    /\ UNCHANGED <<prog, status, log, tmp, specFreq, devFreq, sigs>>
    /\ UNCHANGED <<genVars, cmbVars>>

\* main returns: the deferred os.Remove(tmpfile2), os.Remove(tmpfile1) run.
MixReturn ==
    /\ prog = "mixer" /\ pc = <<"return", 0>>
    /\ tmp' = tmp \ {1, 2}
    /\ pc' = Exit
    /\ status' = "ok"
    /\ UNCHANGED <<prog, log, clock, specFreq, devFreq, sigs, plays>>
    /\ UNCHANGED <<genVars, cmbVars>>

MixNext ==
    \/ MixGenerateSineWave
    \/ \E k \in 1..2 : WriteSineWaveToTempFile_TempFile(k)
    \/ \E k \in 1..2 : WriteSineWaveToTempFile_Write(k)
    \/ \E k \in 1..2 : WriteSineWaveToTempFile_Close(k)
    \/ \E c \in 1..3 : PlaySineWavesSimultaneously_OpenAudio(c)
    \/ \E c \in 1..3 : PlaySineWavesSimultaneously_LoadWAV1(c)
    \/ \E c \in 1..3 : PlaySineWavesSimultaneously_LoadWAV2(c)
    \/ \E c \in 1..3 : PlaySineWavesSimultaneously_Play1(c)
    \/ \E c \in 1..3 : PlaySineWavesSimultaneously_Play2(c)
    \/ \E c \in 1..3 : PlaySineWavesSimultaneously_Sleep(c)
    \/ MixReturn

(***************************************************************************)
(* The waveform program.  Wave 1 is sineWave, 2 squareWave, 3 triangleWave *)
(* and 4 combinedWave; PlayWave's temporary file for wave k is file k.     *)
(* WriteWAV runs inside PlayWave (caller "PlayWave") and from main.        *)
(***************************************************************************)
NumWaves == 4

WaveGenerate(k) ==
    /\ prog = "waveform" /\ pc = <<"GenerateWave", k>>
    /\ sigs' = Append(sigs, IF k < NumWaves THEN Signal(sampleRate)
                                             ELSE [len |-> sigs[1].len, rate |-> sampleRate])
    /\ Did(IF k < NumWaves THEN "GenerateWave" ELSE "CombineWaves", <<"ioutil.TempFile", k>>)
    /\ UNCHANGED <<prog, clock, tmp, specFreq, devFreq, plays>>
    /\ UNCHANGED <<genVars, cmbVars>>

PlayWave_TempFile(k) ==
    /\ prog = "waveform" /\ pc = <<"ioutil.TempFile", k>>
    /\ \E ok \in BOOLEAN :
         /\ Outcome("ioutil.TempFile", ok, <<"os.Create", k, "PlayWave">>)
         /\ tmp' = IF ok THEN tmp \cup {k} ELSE tmp
    /\ UNCHANGED <<prog, clock, specFreq, devFreq, sigs, plays>>
    /\ UNCHANGED <<genVars, cmbVars>>

\* An error inside PlayWave returns through its deferred
\* os.Remove(tmpfile.Name()) before main sees it.
Returned(caller, k, ok) ==
    tmp' = IF caller = "PlayWave" /\ ~ok THEN tmp \ {k} ELSE tmp

WriteWAV_Create(k, caller) ==
    /\ prog = "waveform" /\ pc = <<"os.Create", k, caller>>
    /\ \E ok \in BOOLEAN :
         /\ Outcome("os.Create", ok, <<"encoder.Write", k, caller>>)
         /\ Returned(caller, k, ok)
    /\ UNCHANGED <<prog, clock, specFreq, devFreq, sigs, plays>>
    /\ UNCHANGED <<genVars, cmbVars>>

WriteWAV_Write(k, caller) ==
    /\ prog = "waveform" /\ pc = <<"encoder.Write", k, caller>>
    /\ \E ok \in BOOLEAN :
         /\ Outcome("encoder.Write", ok, <<"encoder.Close", k, caller>>)
         /\ Returned(caller, k, ok)
    /\ UNCHANGED <<prog, clock, specFreq, devFreq, sigs, plays>>
    /\ UNCHANGED <<genVars, cmbVars>>

WriteWAV_Close(k, caller) ==
    /\ prog = "waveform" /\ pc = <<"encoder.Close", k, caller>>
    /\ \E ok \in BOOLEAN :
         /\ Outcome("encoder.Close", ok,
                    IF caller = "PlayWave" THEN <<"mix.OpenAudio", k>>
                    ELSE IF k < NumWaves THEN <<"GenerateWave", k + 1>>
                    ELSE <<"return", 0>>)
         /\ Returned(caller, k, ok)
    /\ UNCHANGED <<prog, clock, specFreq, devFreq, sigs, plays>>
    /\ UNCHANGED <<genVars, cmbVars>>

PlayWave_OpenAudio(k) ==
    /\ prog = "waveform" /\ pc = <<"mix.OpenAudio", k>>
    /\ \E ok \in BOOLEAN :
         /\ Outcome("mix.OpenAudio", ok, <<"mix.LoadWAV", k>>)
         /\ Returned("PlayWave", k, ok)
    /\ UNCHANGED <<prog, clock, specFreq, devFreq, sigs, plays>>
    /\ UNCHANGED <<genVars, cmbVars>>

PlayWave_LoadWAV(k) ==
    /\ prog = "waveform" /\ pc = <<"mix.LoadWAV", k>>
    /\ \E ok \in BOOLEAN :
         /\ Outcome("mix.LoadWAV", ok, <<"chunk.Play", k>>)
         /\ Returned("PlayWave", k, ok)
    /\ UNCHANGED <<prog, clock, specFreq, devFreq, sigs, plays>>
    /\ UNCHANGED <<genVars, cmbVars>>

PlayWave_Play(k) ==
    /\ prog = "waveform" /\ pc = <<"chunk.Play", k>>
    /\ \E ok \in BOOLEAN :
         /\ Outcome("chunk.Play", ok, <<"time.Sleep", k>>)
         /\ Returned("PlayWave", k, ok)
         /\ plays' = IF ok THEN Append(plays, Playback(sigs[k], sampleRate))
                          ELSE plays
    /\ UNCHANGED <<prog, clock, specFreq, devFreq, sigs>>
    /\ UNCHANGED <<genVars, cmbVars>>

\* time.Sleep(duration); return nil: the deferred chunk.Free, mix.CloseAudio
\* and os.Remove(tmpfile.Name()) run.
PlayWave_Sleep(k) ==
    /\ prog = "waveform" /\ pc = <<"time.Sleep", k>>
    /\ \E late \in Overshoot :
         /\ clock' = clock + duration + late
         /\ plays' = Slept(clock')
    /\ tmp' = tmp \ {k}
    /\ pc' = <<"os.Create", k, "main">>
    /\ UNCHANGED <<prog, status, log, specFreq, devFreq, sigs>>
    /\ UNCHANGED <<genVars, cmbVars>>

WaveReturn ==
    /\ prog = "waveform" /\ pc = <<"return", 0>>
    /\ pc' = Exit
    /\ status' = "ok"
    /\ UNCHANGED <<prog, log, clock, tmp, specFreq, devFreq, sigs, plays>>
    /\ UNCHANGED <<genVars, cmbVars>>

Callers == {"PlayWave", "main"}

WaveNext ==
    \/ \E k \in 1..NumWaves : WaveGenerate(k)
    \/ \E k \in 1..NumWaves : PlayWave_TempFile(k)
    \/ \E k \in 1..NumWaves, caller \in Callers : WriteWAV_Create(k, caller)
    \/ \E k \in 1..NumWaves, caller \in Callers : WriteWAV_Write(k, caller)
    \/ \E k \in 1..NumWaves, caller \in Callers : WriteWAV_Close(k, caller)
    \/ \E k \in 1..NumWaves : PlayWave_OpenAudio(k)
    \/ \E k \in 1..NumWaves : PlayWave_LoadWAV(k)
    \/ \E k \in 1..NumWaves : PlayWave_Play(k)
    \/ \E k \in 1..NumWaves : PlayWave_Sleep(k)
    \/ WaveReturn

MainNext == SdlNext \/ MixNext \/ WaveNext

SpecMain == MainInit /\ [][MainNext]_vars

(***************************************************************************)
(* Properties of the programs' runs.                                       *)
(***************************************************************************)
Ended == status \in {"ok", "fatal"}

\* C7: every play operation whose playback started blocks its caller for at least
\* len(signal) / rate seconds, at the rate the device plays the signal, before it
\* returns (times in milliseconds).
C7_PlayBlocksForNominalDuration ==
    \A i \in 1..Len(plays) :
        plays[i].end # -1 =>
            (plays[i].end - plays[i].start) * plays[i].devRate >= plays[i].len * 1000

\* C8: the first failure of a boundary operation ends the run at once: the failed
\* step is the last step of the run, and the process has exited with an error.
C8_FirstFailureEndsRun ==
    \A j \in 1..Len(log) :
        ~log[j].ok => j = Len(log) /\ status = "fatal"

\* C9: in the SDL queue program every signal is queued on a device running at the
\* sample rate the signal was generated at.
C9_DeviceRunsAtSignalRate ==
    prog = "sdl" =>
        \A i \in 1..Len(plays) : plays[i].devRate = plays[i].rate

\* C10: when the process has ended, by a return from main or by a fatal error, no
\* temporary file is left.
C10_TempFilesRemovedAtExit ==
    Ended => tmp = {}

====
